---- MODULE Spec2Model ----
(***************************************************************************)
(* A model of two slices of the repository:                                *)
(*   - crates/onnx-ir/src/node/conv3d.rs : conv3d_config, the extraction   *)
(*     of a Conv3dConfig from an IR node (specification SpecConv);         *)
(*   - burn-tensor/src/tensor/tensor.rs  : Tensor::unsqueeze               *)
(*     (SpecUnsqueeze), Tensor::one_hot (SpecOneHot) and the value-        *)
(*     returning operation surface with its one mutator, update (SpecAD).  *)
(* Rust vectors and arrays are 0-based, TLA+ sequences 1-based: the Rust   *)
(* index k is the TLA+ index k + 1 throughout.                             *)
(***************************************************************************)
EXTENDS Integers, Sequences, FiniteSets, TLC

VARIABLES
    curr,       \* conv3d_config: the node argument (inputs, attrs)
    cpc,        \* conv3d_config: position in the function body
    loc,        \* conv3d_config: the local variables
    remaining,  \* conv3d_config: attribute keys the loop has not visited yet
    cpanic,     \* conv3d_config: the panic that ended the call, "" if none
    config,     \* conv3d_config: the returned Conv3dConfig, <<>> if none
    targs,      \* unsqueeze / one_hot: the receiver and the generic and call arguments
    tpc,        \* unsqueeze / one_hot: position in the function body
    tloc,       \* unsqueeze / one_hot: the local variables
    calls,      \* unsqueeze / one_hot: the requests made to the backend, in order
    tresult,    \* unsqueeze / one_hot: the returned tensor, <<>> if none
    tpanic,     \* unsqueeze / one_hot: the panic that ended the call, "" if none
    env,        \* tensor operations: the caller's tensor variables, by name
    graph,      \* tensor operations: the nodes the differentiable backend recorded
    gradients,  \* tensor operations: the snapshot of the last backward pass
    last_op     \* tensor operations: the operation the last step called

convVars == <<curr, cpc, loc, remaining, cpanic, config>>
tensorVars == <<targs, tpc, tloc, calls, tresult, tpanic>>
adVars == <<env, graph, gradients, last_op>>

vars == <<curr, cpc, loc, remaining, cpanic, config,
          targs, tpc, tloc, calls, tresult, tpanic,
          env, graph, gradients, last_op>>

(***************************************************************************)
(* Option<T>: None is the empty sequence, Some(x) the one-element one.     *)
(***************************************************************************)
None == <<>>
Some(x) == <<x>>
IsSome(o) == o # <<>>
Unwrap(o) == Head(o)

(***************************************************************************)
(*                       conv3d_config (onnx-ir)                           *)
(***************************************************************************)

\* Bounds of the enumerated nodes.
MaxInputs == 4
MaxGroup == 2
MaxPad == 1

\* AttributeValue, the typed attribute encodings the extractor reads.
Int64(n)  == [tag |-> "Int64",  i64 |-> n, i64s |-> <<>>, str |-> ""]
Int64s(s) == [tag |-> "Int64s", i64 |-> 0, i64s |-> s,    str |-> ""]
String(s) == [tag |-> "String", i64 |-> 0, i64s |-> <<>>, str |-> s]

\* AttributeValue::into_i64s / into_i64 on a value of the matching variant.
into_i64s(value) == value.i64s
into_i64(value) == value.i64

\* `x as usize` for an i64 x: the identity on the non-negative values the
\* model enumerates, a wrap modulo 2^64 below zero.
as_usize(x) == IF x >= 0 THEN x ELSE x + 2^64

KnownAttrs == {"kernel_shape", "strides", "pads", "dilations", "group"}
AttrNames == KnownAttrs \cup {"auto_pad"}

\* The values an enumerated node gives each attribute (None: attribute absent).
KernelOpts == {None, Some(Int64s(<<1, 2, 3>>)), Some(Int64s(<<2, 2>>))}
StrideOpts == {None, Some(Int64s(<<2, 1, 3>>))}
DilationOpts == {None, Some(Int64s(<<3, 1, 2>>))}
\* Six pads: any three before-amounts, followed by after-amounts that are equal
\* to them, differ from them on one axis, or are their complements.
PadTriples == [1..3 -> 0..MaxPad]
AfterAmounts(b) ==
    {b} \cup {[b EXCEPT ![a] = v] : a \in 1..3, v \in 0..MaxPad}
        \cup {[a \in 1..3 |-> MaxPad - b[a]]}
PadLists == UNION {{b \o after : after \in AfterAmounts(b)} : b \in PadTriples}
PadOpts == {None} \cup {Some(Int64s(p)) : p \in PadLists}
GroupOpts == {None} \cup {Some(Int64(g)) : g \in 1..MaxGroup}
UnknownOpts == {None, Some(String("SAME_UPPER"))}
WeightShapes == {<<4, 2, 2, 2, 2>>, <<2, 1, 3, 3, 3>>}

\* An Argument with a materialized constant value of the given shape, or none.
Argument(value) == [value |-> value]
TensorData(shape) == [shape |-> shape]

\* Node: the ordered inputs and the attribute map (a function on the keys
\* that are present).
MkAttrs(o) == [k \in {a \in AttrNames : IsSome(o[a])} |-> Unwrap(o[k])]
MkInputs(n, weight) ==
    [i \in 1..n |-> IF i = 2 THEN Argument(weight) ELSE Argument(None)]
Node(n, weight, o) == [inputs |-> MkInputs(n, weight), attrs |-> MkAttrs(o)]

\* No tensor call is running.
TensorIdle ==
    /\ targs = None
    /\ tpc = "idle"
    /\ tloc = None
    /\ calls = <<>>
    /\ tresult = None
    /\ tpanic = ""

\* No tensor variable exists.
ADIdle ==
    /\ env = None
    /\ graph = <<>>
    /\ gradients = None
    /\ last_op = None

\* The locals before the function body runs.
NoLocals ==
    [kernel_shape |-> <<>>, strides |-> <<>>, pads |-> <<>>, dilations |-> <<>>,
     group |-> 0, weight_shape |-> <<>>, bias |-> FALSE,
     channels_in |-> 0, channels_out |-> 0, padding |-> None]

ConvInit ==
    /\ \E n \in 1..MaxInputs, w \in {None} \cup {Some(TensorData(s)) : s \in WeightShapes},
          ks \in KernelOpts, st \in StrideOpts, pd \in PadOpts,
          dl \in DilationOpts, gr \in GroupOpts, un \in UnknownOpts :
            curr = Node(n, w, [kernel_shape |-> ks, strides |-> st, pads |-> pd,
                               dilations |-> dl, group |-> gr, auto_pad |-> un])
    /\ cpc = "defaults"
    /\ loc = NoLocals
    /\ remaining = {}
    /\ cpanic = ""
    /\ config = None
    /\ TensorIdle
    /\ ADIdle

\* let mut kernel_shape / strides / pads / dilations / group
Defaults(l) ==
    [l EXCEPT !.kernel_shape = <<>>,
              !.strides = <<1, 1, 1>>,
              !.pads = <<0, 0, 0, 0, 0, 0>>,
              !.dilations = <<1, 1, 1>>,
              !.group = 1]

ConvDefaults ==
    /\ cpc = "defaults"
    /\ loc' = Defaults(loc)
    /\ cpc' = "weight"
    /\ UNCHANGED <<curr, remaining, cpanic, config>>
    /\ UNCHANGED <<tensorVars, adVars>>

Panic(msg) ==
    /\ cpc' = "panic"
    /\ cpanic' = msg

\* curr.inputs[1].value.as_ref().expect(..).shape.clone()
ConvReadWeight ==
    /\ cpc = "weight"
    /\ IF Len(curr.inputs) < 2
         THEN Panic("index out of bounds: inputs") /\ UNCHANGED loc
         ELSE IF ~IsSome(curr.inputs[2].value)
           THEN Panic("Conv3d: weight tensor must be present") /\ UNCHANGED loc
           ELSE /\ loc' = [loc EXCEPT !.weight_shape = Unwrap(curr.inputs[2].value).shape]
                /\ cpc' = "bias"
                /\ UNCHANGED cpanic
    /\ UNCHANGED <<curr, remaining, config>>
    /\ UNCHANGED <<tensorVars, adVars>>

\* let bias = curr.inputs.len() == 3;
HasBiasGe(inputs) == Len(inputs) >= 3
HasBias(inputs) == Len(inputs) = 3

ConvBias ==
    /\ cpc = "bias"
    /\ loc' = [loc EXCEPT !.bias = HasBias(curr.inputs)]
    /\ remaining' = DOMAIN curr.attrs
    /\ cpc' = "attrs"
    /\ UNCHANGED <<curr, cpanic, config>>
    /\ UNCHANGED <<tensorVars, adVars>>

\* One arm of the match on the attribute key: the locals after it, or no
\* locals when the arm panics.
MatchAttrIgnoreUnknown(l, key, value) ==
    CASE key = "kernel_shape" -> Some([l EXCEPT !.kernel_shape = into_i64s(value)])
      [] key = "strides"      -> Some([l EXCEPT !.strides = into_i64s(value)])
      [] key = "pads"         -> Some([l EXCEPT !.pads = into_i64s(value)])
      [] key = "dilations"    -> Some([l EXCEPT !.dilations = into_i64s(value)])
      [] key = "group"        -> Some([l EXCEPT !.group = as_usize(into_i64(value))])
      [] OTHER                -> Some(l)
MatchAttrDropPads(l, key, value) ==
    CASE key = "kernel_shape" -> Some([l EXCEPT !.kernel_shape = into_i64s(value)])
      [] key = "strides"      -> Some([l EXCEPT !.strides = into_i64s(value)])
      [] key = "pads"         -> Some(l)
      [] key = "dilations"    -> Some([l EXCEPT !.dilations = into_i64s(value)])
      [] key = "group"        -> Some([l EXCEPT !.group = as_usize(into_i64(value))])
      [] OTHER                -> None
MatchAttrSwapped(l, key, value) ==
    CASE key = "kernel_shape" -> Some([l EXCEPT !.kernel_shape = into_i64s(value)])
      [] key = "strides"      -> Some([l EXCEPT !.dilations = into_i64s(value)])
      [] key = "pads"         -> Some([l EXCEPT !.pads = into_i64s(value)])
      [] key = "dilations"    -> Some([l EXCEPT !.strides = into_i64s(value)])
      [] key = "group"        -> Some([l EXCEPT !.group = as_usize(into_i64(value))])
      [] OTHER                -> None
MatchAttr(l, key, value) ==
    CASE key = "kernel_shape" -> Some([l EXCEPT !.kernel_shape = into_i64s(value)])
      [] key = "strides"      -> Some([l EXCEPT !.strides = into_i64s(value)])
      [] key = "pads"         -> Some([l EXCEPT !.pads = into_i64s(value)])
      [] key = "dilations"    -> Some([l EXCEPT !.dilations = into_i64s(value)])
      [] key = "group"        -> Some([l EXCEPT !.group = as_usize(into_i64(value))])
      [] OTHER                -> None

\* for (key, value) in curr.attrs.iter(): one iteration. The map is unordered,
\* so the next key is any key not visited yet.
ConvAttr ==
    /\ cpc = "attrs"
    /\ \E key \in remaining :
         LET r == MatchAttr(loc, key, curr.attrs[key])
         IN IF IsSome(r)
              THEN /\ loc' = Unwrap(r)
                   /\ remaining' = remaining \ {key}
                   /\ UNCHANGED <<cpc, cpanic>>
              ELSE /\ Panic("Unexpected attribute for Conv3d: " \o key)
                   /\ UNCHANGED <<loc, remaining>>
    /\ UNCHANGED <<curr, config>>
    /\ UNCHANGED <<tensorVars, adVars>>

\* let channels_in = weight_shape[1] * group; let channels_out = weight_shape[0];
ChannelsInNoGroup(weight_shape, group) == weight_shape[2]
ChannelsIn(weight_shape, group) == weight_shape[2] * group
ChannelsOut(weight_shape) == weight_shape[1]

ConvChannels ==
    /\ cpc = "attrs"
    /\ remaining = {}
    /\ IF Len(loc.weight_shape) < 2
         THEN Panic("index out of bounds: weight_shape") /\ UNCHANGED loc
         ELSE /\ loc' = [loc EXCEPT !.channels_in = ChannelsIn(loc.weight_shape, loc.group),
                                    !.channels_out = ChannelsOut(loc.weight_shape)]
              /\ cpc' = "padding"
              /\ UNCHANGED cpanic
    /\ UNCHANGED <<curr, remaining, config>>
    /\ UNCHANGED <<tensorVars, adVars>>

\* PaddingConfig3d
Valid == [tag |-> "Valid", amount |-> <<>>]
Explicit(d, h, w) == [tag |-> "Explicit", amount |-> <<d, h, w>>]

\* padding_config_3d (crate::node::padding): the symmetric-pad derivation.
\* pads lists the pad-before amounts of the three axes, then the pad-after
\* amounts. None: the derivation rejects the list.
padding_config_3d(pads) ==
    IF \E a \in 1..3 : pads[a] # pads[a + 3]
      THEN None
      ELSE IF \A i \in 1..6 : pads[i] = 0
        THEN Some(Valid)
        ELSE Some(Explicit(as_usize(pads[1]), as_usize(pads[2]), as_usize(pads[3])))

\* let padding = padding_config_3d(&pads);
ConvPadding ==
    /\ cpc = "padding"
    /\ LET p == padding_config_3d(loc.pads)
       IN IF IsSome(p)
            THEN /\ loc' = [loc EXCEPT !.padding = p]
                 /\ cpc' = "assemble"
                 /\ UNCHANGED cpanic
            ELSE Panic("Asymmetric padding is not supported") /\ UNCHANGED loc
    /\ UNCHANGED <<curr, remaining, config>>
    /\ UNCHANGED <<tensorVars, adVars>>

\* [v[0] as usize, v[1] as usize, v[2] as usize]
Array3(v) == <<as_usize(v[1]), as_usize(v[2]), as_usize(v[3])>>

\* The kernel_size argument of Conv3dConfig::new: the three leading entries
\* of kernel_shape, or none when an index is out of bounds.
KernelSizeFromWeight(l) ==
    IF Len(l.kernel_shape) >= 3 THEN Some(Array3(l.kernel_shape))
    ELSE Some(<<l.weight_shape[3], l.weight_shape[4], l.weight_shape[5]>>)
KernelSize(l) ==
    IF Len(l.kernel_shape) >= 3 THEN Some(Array3(l.kernel_shape)) ELSE None

\* Conv3dConfig::new
Conv3dConfig_new(channels, kernel_size, stride, dilation, groups, bias, padding) ==
    [channels |-> channels, kernel_size |-> kernel_size, stride |-> stride,
     dilation |-> dilation, groups |-> groups, bias |-> bias, padding |-> padding]

\* Conv3dConfig::new([channels_in, channels_out], [kernel_shape..], [strides..],
\*                   [dilations..], group, bias, padding)
ConvAssemble ==
    /\ cpc = "assemble"
    /\ IF ~IsSome(KernelSize(loc))
         THEN Panic("index out of bounds: kernel_shape") /\ UNCHANGED config
         ELSE IF Len(loc.strides) < 3
           THEN Panic("index out of bounds: strides") /\ UNCHANGED config
           ELSE IF Len(loc.dilations) < 3
             THEN Panic("index out of bounds: dilations") /\ UNCHANGED config
             ELSE /\ config' = Some(Conv3dConfig_new(
                                   <<loc.channels_in, loc.channels_out>>,
                                   Unwrap(KernelSize(loc)),
                                   Array3(loc.strides),
                                   Array3(loc.dilations),
                                   loc.group, loc.bias, Unwrap(loc.padding)))
                  /\ cpc' = "done"
                  /\ UNCHANGED cpanic
    /\ UNCHANGED <<curr, loc, remaining>>
    /\ UNCHANGED <<tensorVars, adVars>>

ConvNext ==
    \/ ConvDefaults
    \/ ConvReadWeight
    \/ ConvBias
    \/ ConvAttr
    \/ ConvChannels
    \/ ConvPadding
    \/ ConvAssemble

SpecConv == ConvInit /\ [][ConvNext]_vars

(***************************************************************************)
(* Claims about conv3d_config, read off the node and the returned config.  *)
(***************************************************************************)
HasAttr(name) == name \in DOMAIN curr.attrs
WeightOf == Unwrap(curr.inputs[2].value).shape
GroupAttr == IF HasAttr("group") THEN curr.attrs["group"].i64 ELSE 1
PadsAttr == IF HasAttr("pads") THEN curr.attrs["pads"].i64s ELSE <<0, 0, 0, 0, 0, 0>>
Returned == IsSome(config)
Cfg == Unwrap(config)
\* The call has ended without a config: it panicked.
Aborted == cpc = "panic" /\ config = None
\* The call never returns a config and, once it can take no further step,
\* it has panicked.
NoConfig == config = None /\ cpc # "done" /\ (~ENABLED ConvNext => Aborted)

\* C1: a returned config has channels = [w[1] * g, w[0]], with w the weight's
\* materialized shape and g the group attribute (1 when absent).
C1_Channels ==
    Returned => Cfg.channels = <<WeightOf[2] * GroupAttr, WeightOf[1]>>
\* The grouped case of the test: group = 2, weight [4,2,2,2,2], channels [4,4].
C1_Witness ==
    /\ Returned
    /\ GroupAttr = 2
    /\ WeightOf = <<4, 2, 2, 2, 2>>
    /\ Cfg.channels = <<4, 4>>

\* C2: a node with an attribute name outside the known set never yields a
\* config: the call panics, wherever the unknown name comes in the iteration.
C2_UnknownAttrAborts ==
    (DOMAIN curr.attrs \ KnownAttrs # {}) => NoConfig
\* The unknown name is met last, after every known attribute was applied.
C2_Witness ==
    /\ Aborted
    /\ cpanic = "Unexpected attribute for Conv3d: auto_pad"
    /\ remaining = {"auto_pad"}
    /\ KnownAttrs \subseteq DOMAIN curr.attrs

\* C3: with P the six pads (attribute or zeros), before-amounts P[0..2] and
\* after-amounts P[3..5]: an asymmetric P yields no config; a returned config
\* has padding Valid when P is all zero, else Explicit(P[0], P[1], P[2]).
C3_Padding ==
    /\ (\E a \in 1..3 : PadsAttr[a] # PadsAttr[a + 3]) => NoConfig
    /\ Returned =>
         Cfg.padding = IF \A i \in 1..6 : PadsAttr[i] = 0
                         THEN Valid
                         ELSE Explicit(PadsAttr[1], PadsAttr[2], PadsAttr[3])
\* A symmetric, non-zero list whose axes differ.
C3_Witness ==
    /\ Returned
    /\ HasAttr("pads")
    /\ PadsAttr = <<1, 0, 1, 1, 0, 1>>
    /\ Cfg.padding = Explicit(1, 0, 1)
\* An asymmetric list is rejected by the derivation.
C3_WitnessRejected ==
    /\ Aborted
    /\ cpanic = "Asymmetric padding is not supported"
    /\ PadsAttr = <<0, 0, 1, 0, 0, 0>>

\* C4: a returned config has bias = TRUE exactly when the node has 3 inputs.
C4_Bias ==
    Returned => (Cfg.bias <=> Len(curr.inputs) = 3)
C4_Witness ==
    /\ Returned
    /\ Len(curr.inputs) = 3
    /\ Cfg.bias

\* C5: a returned config has stride, dilation and groups equal to the
\* attribute when present and to the default ([1,1,1], [1,1,1], 1) when
\* absent, padding Valid when pads is absent, and kernel_size equal to the
\* kernel_shape attribute.
C5_Defaults ==
    Returned =>
      /\ Cfg.stride = IF HasAttr("strides") THEN curr.attrs["strides"].i64s
                                             ELSE <<1, 1, 1>>
      /\ Cfg.dilation = IF HasAttr("dilations") THEN curr.attrs["dilations"].i64s
                                                 ELSE <<1, 1, 1>>
      /\ Cfg.groups = IF HasAttr("group") THEN curr.attrs["group"].i64 ELSE 1
      /\ (~HasAttr("pads") => Cfg.padding = Valid)
      /\ HasAttr("kernel_shape")
      /\ Cfg.kernel_size = curr.attrs["kernel_shape"].i64s
\* strides present (overrides), dilations, group and pads absent (defaults).
C5_Witness ==
    /\ Returned
    /\ DOMAIN curr.attrs = {"kernel_shape", "strides"}
    /\ Cfg.stride = <<2, 1, 3>>
    /\ Cfg.dilation = <<1, 1, 1>>
    /\ Cfg.groups = 1
    /\ Cfg.padding = Valid
    /\ Cfg.kernel_size = <<1, 2, 3>>

MaxRank == 3
MaxDim == 2
MaxClasses == 3

RECURSIVE NumElements(_)
\* Shape::num_elements: the product of the dimension sizes.
NumElements(dims) ==
    IF dims = <<>> THEN 1 ELSE dims[1] * NumElements(Tail(dims))

\* [v; n]
Repeat(v, n) == [k \in 1..n |-> v]

\* A backend tensor value: its shape and its elements in row-major order.
Value(dims, data) == [shape |-> dims, data |-> data]

RECURSIVE Coords(_, _)
\* The 0-based coordinates of the element at 0-based row-major offset k.
Coords(k, dims) ==
    IF dims = <<>> THEN <<>>
    ELSE LET inner == NumElements(Tail(dims))
         IN <<k \div inner>> \o Coords(k % inner, Tail(dims))

RECURSIVE Offset(_, _)
\* The 0-based row-major offset of the element at the 0-based coordinates c.
Offset(c, dims) ==
    IF dims = <<>> THEN 0
    ELSE c[1] * NumElements(Tail(dims)) + Offset(Tail(c), Tail(dims))

\* std::ops::Range<usize>: start..end
Range(start, end) == [start |-> start, end |-> end]

\* Backend::zeros / Backend::ones on the default device.
B_zeros(dims) == Value(dims, Repeat(0, NumElements(dims)))
B_ones(dims) == Value(dims, Repeat(1, NumElements(dims)))

\* TensorOps::reshape: the same elements under a new shape; an error (None)
\* when the element counts differ.
B_reshape(value, dims) ==
    IF NumElements(dims) = NumElements(value.shape)
      THEN Some(Value(dims, value.data))
      ELSE None

\* An axis without a range of its own is addressed in full.
RangeOf(ranges, dims, a) ==
    IF a <= Len(ranges) THEN ranges[a] ELSE Range(0, dims[a])
RegionShape(ranges, dims) ==
    [a \in 1..Len(dims) |-> RangeOf(ranges, dims, a).end - RangeOf(ranges, dims, a).start]
InRegion(c, ranges, dims) ==
    \A a \in 1..Len(dims) :
       RangeOf(ranges, dims, a).start <= c[a] /\ c[a] < RangeOf(ranges, dims, a).end

\* TensorOps::index_assign: the receiver with the addressed sub-region
\* overwritten by `values`; an error (None) when a range leaves the tensor's
\* bounds or `values` has not the region's shape.
B_index_assign(value, ranges, values) ==
    IF \/ Len(ranges) > Len(value.shape)
       \/ \E a \in 1..Len(ranges) :
            ranges[a].start > ranges[a].end \/ ranges[a].end > value.shape[a]
       \/ values.shape # RegionShape(ranges, value.shape)
      THEN None
      ELSE Some(Value(value.shape,
             [k \in 1..Len(value.data) |->
                LET c == Coords(k - 1, value.shape)
                IN IF InRegion(c, ranges, value.shape)
                     THEN values.data[Offset(
                            [a \in 1..Len(c) |-> c[a] - RangeOf(ranges, value.shape, a).start],
                            values.shape) + 1]
                     ELSE value.data[k]]))

\* A request to the backend, as the log records it.
Call(op, dims, ranges) == [op |-> op, shape |-> dims, ranges |-> ranges]

\* generic parameters D and D2, receiver, and the arguments of one_hot
Args(self, D, D2, index, num_classes) ==
    [self |-> self, D |-> D, D2 |-> D2, index |-> index, num_classes |-> num_classes]

Locals(dims, num_ones, i, tensor, ranges) ==
    [dims |-> dims, num_ones |-> num_ones, i |-> i, tensor |-> tensor, ranges |-> ranges]
NoTensorLocals == Locals(<<>>, 0, 0, None, <<>>)

ConvIdle ==
    /\ curr = None
    /\ cpc = "idle"
    /\ loc = NoLocals
    /\ remaining = {}
    /\ cpanic = ""
    /\ config = None

TensorPanic(msg) ==
    /\ tpc' = "panic"
    /\ tpanic' = msg

(***************************************************************************)
(*                          Tensor::unsqueeze                              *)
(***************************************************************************)

\* The receivers: every shape of rank 0..MaxRank with sizes 0..MaxDim, the
\* elements numbered 1, 2, ... in row-major order.
Shapes == UNION {[1..D -> 0..MaxDim] : D \in 0..MaxRank}
Numbered(dims) == Value(dims, [k \in 1..NumElements(dims) |-> k])

UnsqueezeInit ==
    /\ \E dims \in Shapes, D2 \in 0..(MaxRank + 1) :
         targs = Args(Some(Numbered(dims)), Len(dims), D2, 0, 0)
    /\ tpc = "unsqueeze"
    /\ tloc = NoTensorLocals
    /\ calls = <<>>
    /\ tresult = None
    /\ tpanic = ""
    /\ ConvIdle
    /\ ADIdle

\* if D2 < D { panic!(..) }
UnsqueezeCheck ==
    /\ tpc = "unsqueeze"
    /\ IF targs.D2 < targs.D
         THEN TensorPanic("Can't unsqueeze smaller tensor")
         ELSE tpc' = "dims" /\ UNCHANGED tpanic
    /\ UNCHANGED <<targs, tloc, calls, tresult>>
    /\ UNCHANGED <<convVars, adVars>>

\* let mut dims = [1; D2]; let num_ones = D2 - D;
UnsqueezeDims ==
    /\ tpc = "dims"
    /\ tloc' = [tloc EXCEPT !.dims = Repeat(1, targs.D2),
                            !.num_ones = targs.D2 - targs.D,
                            !.i = 0]
    /\ tpc' = "loop"
    /\ UNCHANGED <<targs, calls, tresult, tpanic>>
    /\ UNCHANGED <<convVars, adVars>>

\* dims[i + num_ones] = shape.dims[i];
AssignDimTrailing(dims, i, num_ones, shape) ==
    [dims EXCEPT ![i + 1] = shape[i + 1]]
AssignDim(dims, i, num_ones, shape) ==
    [dims EXCEPT ![i + num_ones + 1] = shape[i + 1]]

\* for i in 0..D { .. }: one iteration
UnsqueezeLoop ==
    /\ tpc = "loop"
    /\ tloc.i < targs.D
    /\ tloc' = [tloc EXCEPT
                  !.dims = AssignDim(tloc.dims, tloc.i, tloc.num_ones,
                                     Unwrap(targs.self).shape),
                  !.i = tloc.i + 1]
    /\ UNCHANGED <<targs, tpc, calls, tresult, tpanic>>
    /\ UNCHANGED <<convVars, adVars>>

\* Tensor::reshape: Tensor::new(self.value.reshape(shape))
Tensor_reshape(self, shape) == B_reshape(self, shape)

\* let shape = Shape::new(dims); self.reshape(shape)
UnsqueezeReshape ==
    /\ tpc = "loop"
    /\ tloc.i >= targs.D
    /\ calls' = Append(calls, Call("reshape", tloc.dims, <<>>))
    /\ LET r == Tensor_reshape(Unwrap(targs.self), tloc.dims)
       IN IF IsSome(r)
            THEN tresult' = r /\ tpc' = "done" /\ UNCHANGED tpanic
            ELSE TensorPanic("reshape: element count mismatch") /\ UNCHANGED tresult
    /\ UNCHANGED <<targs, tloc>>
    /\ UNCHANGED <<convVars, adVars>>

UnsqueezeNext ==
    \/ UnsqueezeCheck
    \/ UnsqueezeDims
    \/ UnsqueezeLoop
    \/ UnsqueezeReshape

SpecUnsqueeze == UnsqueezeInit /\ [][UnsqueezeNext]_vars

\* C6: for D2 >= D the call requests exactly one reshape, to D2 - D ones
\* followed by the receiver's dimensions in order, and returns a tensor of
\* rank D2 with that shape and the receiver's element count; for D2 < D it
\* panics with no reshape requested and no tensor returned.
C6_Unsqueeze ==
    LET S == Unwrap(targs.self).shape
        padded == Repeat(1, targs.D2 - targs.D) \o S
    IN /\ targs.D2 >= targs.D =>
            /\ tpc # "panic"
            /\ calls \in {<<>>, <<Call("reshape", padded, <<>>)>>}
            /\ tpc = "done" =>
                 /\ calls = <<Call("reshape", padded, <<>>)>>
                 /\ IsSome(tresult)
                 /\ Unwrap(tresult).shape = padded
                 /\ Len(Unwrap(tresult).shape) = targs.D2
                 /\ NumElements(Unwrap(tresult).shape) = NumElements(S)
                 /\ Unwrap(tresult).data = Unwrap(targs.self).data
            /\ ~ENABLED UnsqueezeNext => tpc = "done"
       /\ targs.D2 < targs.D =>
            /\ calls = <<>>
            /\ tresult = None
            /\ tpc # "done"
            /\ ~ENABLED UnsqueezeNext => tpc = "panic"
\* A rank-2 tensor of shape [2, 1] unsqueezed to rank 4.
C6_Witness ==
    /\ tpc = "done"
    /\ Unwrap(targs.self).shape = <<2, 1>>
    /\ targs.D2 = 4
    /\ Unwrap(tresult).shape = <<1, 1, 2, 1>>
\* The precondition violation: rank 3 to rank 2.
C6_WitnessPanic ==
    /\ tpc = "panic"
    /\ targs.D = 3
    /\ targs.D2 = 2
    /\ calls = <<>>

(***************************************************************************)
(*                           Tensor::one_hot                               *)
(***************************************************************************)

OneHotInit ==
    /\ \E D \in 0..MaxRank, index \in 0..MaxClasses, num_classes \in 0..MaxClasses :
         targs = Args(None, D, D, index, num_classes)
    /\ tpc = "one_hot"
    /\ tloc = NoTensorLocals
    /\ calls = <<>>
    /\ tresult = None
    /\ tpanic = ""
    /\ ConvIdle
    /\ ADIdle

\* let mut dims = [1; D]; dims[D - 1] = num_classes;
OneHotShape(D, num_classes) == [Repeat(1, D) EXCEPT ![D] = num_classes]

\* let mut dims = [1; D]; dims[D - 1] = num_classes; let shape = Shape::new(dims);
\* With D = 0 the index D - 1 underflows: the call panics.
OneHotDims ==
    /\ tpc = "one_hot"
    /\ IF targs.D = 0
         THEN TensorPanic("attempt to subtract with overflow") /\ UNCHANGED tloc
         ELSE /\ tloc' = [tloc EXCEPT !.dims = OneHotShape(targs.D, targs.num_classes)]
              /\ tpc' = "zeros"
              /\ UNCHANGED tpanic
    /\ UNCHANGED <<targs, calls, tresult>>
    /\ UNCHANGED <<convVars, adVars>>

\* Tensor::zeros: Self::new(B::zeros(shape, B::Device::default()))
Tensor_zeros(shape) == B_zeros(shape)
\* Tensor::ones: Self::new(B::ones(shape, B::Device::default()))
Tensor_ones(shape) == B_ones(shape)

\* let tensor = Tensor::zeros(shape);
OneHotZeros ==
    /\ tpc = "zeros"
    /\ calls' = Append(calls, Call("zeros", tloc.dims, <<>>))
    /\ tloc' = [tloc EXCEPT !.tensor = Some(Tensor_zeros(tloc.dims))]
    /\ tpc' = "ranges"
    /\ UNCHANGED <<targs, tresult, tpanic>>
    /\ UNCHANGED <<convVars, adVars>>

\* let ranges = shape.dims.iter().map(|dim| 0..dim.clone()).collect();
\* ranges[D - 1] = index..index + 1;
OneHotRangesNext(dims, D, index) ==
    [[a \in 1..D |-> Range(0, dims[a])] EXCEPT ![D] = Range(index + 1, index + 2)]
OneHotRanges(dims, D, index) ==
    [[a \in 1..D |-> Range(0, dims[a])] EXCEPT ![D] = Range(index, index + 1)]

OneHotSetRanges ==
    /\ tpc = "ranges"
    /\ tloc' = [tloc EXCEPT !.ranges = OneHotRanges(tloc.dims, targs.D, targs.index)]
    /\ tpc' = "assign"
    /\ UNCHANGED <<targs, calls, tresult, tpanic>>
    /\ UNCHANGED <<convVars, adVars>>

\* Tensor::index_assign: Self::new(self.value.index_assign(indexes, &values.value))
Tensor_index_assign(self, indexes, values) == B_index_assign(self, indexes, values)

\* let tensor = tensor.index_assign(ranges, &Tensor::ones(Shape::new([1; D]))); tensor
OneHotAssign ==
    /\ tpc = "assign"
    /\ calls' = calls \o <<Call("ones", Repeat(1, targs.D), <<>>),
                           Call("index_assign", <<>>, tloc.ranges)>>
    /\ LET r == Tensor_index_assign(Unwrap(tloc.tensor), tloc.ranges,
                                    Tensor_ones(Repeat(1, targs.D)))
       IN IF IsSome(r)
            THEN tresult' = r /\ tpc' = "done" /\ UNCHANGED tpanic
            ELSE TensorPanic("index_assign: range out of bounds") /\ UNCHANGED tresult
    /\ UNCHANGED <<targs, tloc>>
    /\ UNCHANGED <<convVars, adVars>>

OneHotNext ==
    \/ OneHotDims
    \/ OneHotZeros
    \/ OneHotSetRanges
    \/ OneHotAssign

SpecOneHot == OneHotInit /\ [][OneHotNext]_vars

\* C7: for D >= 1 and 0 <= index < num_classes, one_hot returns a tensor of
\* shape [1, ..., 1, num_classes] whose element at position index of the last
\* axis is 1 and whose other elements are 0, built from a zero tensor by one
\* index_assign over the full extent of every axis but the last, which is
\* narrowed to [index, index + 1).
C7_OneHot ==
    LET D == targs.D
        n == targs.num_classes
        i == targs.index
        shape == Repeat(1, D - 1) \o <<n>>
        full == [a \in 1..(D - 1) |-> Range(0, 1)] \o <<Range(i, i + 1)>>
    IN (D >= 1 /\ i < n) =>
         /\ tpc # "panic"
         /\ ~ENABLED OneHotNext => tpc = "done"
         /\ tpc = "done" =>
              /\ IsSome(tresult)
              /\ Unwrap(tresult).shape = shape
              /\ Len(Unwrap(tresult).data) = n
              /\ \A k \in 1..n : Unwrap(tresult).data[k] = IF k = i + 1 THEN 1 ELSE 0
              /\ Cardinality({k \in 1..n : Unwrap(tresult).data[k] = 1}) = 1
              /\ calls = <<Call("zeros", shape, <<>>),
                           Call("ones", Repeat(1, D), <<>>),
                           Call("index_assign", <<>>, full)>>
\* Rank 3, class 1 of 3: shape [1, 1, 3] and elements 0, 1, 0.
C7_Witness ==
    /\ tpc = "done"
    /\ targs.D = 3
    /\ targs.index = 1
    /\ targs.num_classes = 3
    /\ Unwrap(tresult) = Value(<<1, 1, 3>>, <<0, 1, 0>>)

(***************************************************************************)
(*      Tensor: the operation surface over a differentiable backend        *)
(***************************************************************************)

\* Bounds: the nodes a run may record, the largest element.
MaxNodes == 3
MaxElem == 1

\* The caller's tensor variables; each is bound once and stays in scope.
Slots == {"a", "b", "c"}
Devices == {"cpu", "gpu"}
\* The shapes of the tensors the calls work on: rank 1 and 2, up to 2 elements.
OpShapes == {<<1>>, <<2>>, <<1, 1>>, <<1, 2>>, <<2, 1>>}

\* A backend tensor primitive: which backend it belongs to ("ad": the
\* differentiable backend, "inner": its inner backend, "full": the full
\* precision backend, "bool": a BoolTensor), the numeric value, the graph node
\* it is linked to (0: none) and its device.
Prim(kind, tensor, node, device) ==
    [kind |-> kind, tensor |-> tensor, node |-> node, device |-> device]

GraphNode(op, parents) == [op |-> op, parents |-> parents]

RECURSIVE Ancestors(_, _)
\* The nodes a backward pass from node n follows: its parents, transitively.
Ancestors(g, n) ==
    IF n = 0 THEN {}
    ELSE g[n].parents \cup UNION {Ancestors(g, p) : p \in g[n].parents}

\* The backward history of a primitive: the recorded nodes it was computed from.
History(g, p) == {<<n, g[n]>> : n \in Ancestors(g, p.node)}

RECURSIVE SumSeq(_)
SumSeq(q) == IF q = <<>> THEN 0 ELSE q[1] + SumSeq(Tail(q))

\* The backend's element-wise and structural operations on values.
B_add(a, b) == Value(a.shape, [k \in 1..Len(a.data) |-> a.data[k] + b.data[k]])
B_mul_scalar(a, c) == Value(a.shape, [k \in 1..Len(a.data) |-> a.data[k] * c])
B_sum(a) == Value(<<1>>, <<SumSeq(a.data)>>)
B_equal(a, b) ==
    Value(a.shape, [k \in 1..Len(a.data) |-> IF a.data[k] = b.data[k] THEN 1 ELSE 0])
B_mask_fill(a, mask, v) ==
    Value(a.shape, [k \in 1..Len(a.data) |-> IF mask.data[k] = 1 THEN v ELSE a.data[k]])
B_index(a, ranges) ==
    LET region == RegionShape(ranges, a.shape)
    IN Value(region,
         [k \in 1..NumElements(region) |->
            LET c == Coords(k - 1, region)
            IN a.data[Offset([x \in 1..Len(c) |-> c[x] + RangeOf(ranges, a.shape, x).start],
                             a.shape) + 1]])
\* Two values joined along axis dim (0-based).
Cat2(a, b, dim) ==
    LET dims == [a.shape EXCEPT ![dim + 1] = a.shape[dim + 1] + b.shape[dim + 1]]
    IN Value(dims,
         [k \in 1..NumElements(dims) |->
            LET c == Coords(k - 1, dims)
            IN IF c[dim + 1] < a.shape[dim + 1]
                 THEN a.data[Offset(c, a.shape) + 1]
                 ELSE b.data[Offset([c EXCEPT ![dim + 1] = c[dim + 1] - a.shape[dim + 1]],
                                    b.shape) + 1]])
RECURSIVE B_cat(_, _)
B_cat(tensors, dim) ==
    IF Len(tensors) = 1 THEN tensors[1]
    ELSE Cat2(tensors[1], B_cat(Tail(tensors), dim), dim)
\* Precision conversion is exact on the representable values.
B_to_full_precision(a) == a

\* ADBackend::inner: the value without its graph linkage.
B_inner(p) == Prim("inner", p.tensor, 0, p.device)
\* ADBackend::from_inner: a differentiable primitive holding the value, linked
\* to the node `fresh`, a new leaf of the graph.
B_from_inner(p, fresh) == Prim("ad", p.tensor, fresh, p.device)
\* ADBackend::backward: the gradients of every node reachable backward.
B_backward(g, p) == [root |-> p.node, nodes |-> {p.node} \cup Ancestors(g, p.node)]
\* ADBackend::grad: the gradient recorded for the primitive's node, if any.
B_grad(p, grads) ==
    IF p.node \in grads.nodes
      THEN Some(Prim("inner", B_ones(p.tensor.shape), 0, p.device))
      ELSE None

\* The methods of Tensor, each Self::new(self.value.<op>(..)).
Tensor_add(self, other) == B_add(self, other)
Tensor_mul_scalar(self, other) == B_mul_scalar(self, other)
Tensor_sum(self) == B_sum(self)
Tensor_equal(self, other) == B_equal(self, other)
Tensor_index(self, indexes) == B_index(self, indexes)
Tensor_mask_fill(self, mask, value) == B_mask_fill(self, mask, value)
Tensor_to_full_precision(self) == B_to_full_precision(self)
Tensor_cat(tensors, dim) == B_cat(tensors, dim)

RECURSIVE UnsqueezeFill(_, _, _, _)
\* The loop of unsqueeze, run to its end.
UnsqueezeFill(dims, i, num_ones, shape) ==
    IF i >= Len(shape) THEN dims
    ELSE UnsqueezeFill(AssignDim(dims, i, num_ones, shape), i + 1, num_ones, shape)
\* Tensor::unsqueeze for D2 >= D.
Tensor_unsqueeze(self, D2) ==
    Tensor_reshape(self, UnsqueezeFill(Repeat(1, D2), 0, D2 - Len(self.shape), self.shape))

\* Tensor::inner: Tensor::new(B::inner(&self.value))
Tensor_inner(self) == B_inner(self)
\* Tensor::from_inner: Self::new(B::from_inner(inner.value))
Tensor_from_inner(inner, fresh) == B_from_inner(inner, fresh)
\* Tensor::detach: Self::from_inner(self.inner())
Tensor_detach(self, fresh) == Tensor_from_inner(Tensor_inner(self), fresh)
\* Tensor::update: self.value = B::from_inner(other_inner.value)
Tensor_update_keep_node(self, other_inner, fresh) ==
    Prim("ad", other_inner.tensor, self.node, other_inner.device)
Tensor_update(self, other_inner, fresh) == B_from_inner(other_inner, fresh)

\* A `&self` method returns Self::new(value): the new tensor is bound to a
\* variable of the caller that held none, the receiver keeps its value.
ReturnInPlace(e, self, dest, value) ==
    [e EXCEPT ![dest] = Some(value), ![self] = Some(value)]
Return(e, self, dest, value) == [e EXCEPT ![dest] = Some(value)]
\* `self.value = value` through `&mut self`.
Assign(e, self, value) == [e EXCEPT ![self] = Some(value)]

Op(name, self, arg) == [name |-> name, self |-> self, arg |-> arg]

Live(x) == IsSome(env[x])
T(x) == Unwrap(env[x])
Numeric(x) == Live(x) /\ T(x).kind = "ad"
InBound(v) ==
    /\ v.shape \in OpShapes
    /\ \A k \in 1..Len(v.data) : v.data[k] <= MaxElem

\* The differentiable backend records a node for each tensor it produces.
Fresh == Len(graph) + 1
NodeFor(kind) == IF kind = "ad" THEN Fresh ELSE 0
Recorded(kind, op, parents) ==
    IF kind = "ad" THEN Append(graph, GraphNode(op, parents \ {0})) ELSE graph

\* The step of a value-returning operation: `let dest = self.<name>(arg)`.
Returns(name, self, arg, dest, kind, value, device, parents) ==
    /\ ~Live(dest)
    /\ kind = "ad" => Len(graph) < MaxNodes
    /\ InBound(value)
    /\ graph' = Recorded(kind, name, parents)
    /\ env' = Return(env, self, dest, Prim(kind, value, NodeFor(kind), device))
    /\ last_op' = Op(name, self, arg)
    /\ UNCHANGED gradients
    /\ UNCHANGED <<convVars, tensorVars>>

\* One differentiable tensor built from data, bound to `a`.
ADInit ==
    /\ \E data \in [1..2 -> 0..MaxElem] :
         env = [x \in Slots |->
                  IF x = "a" THEN Some(Prim("ad", Value(<<2>>, data), 1, "cpu"))
                  ELSE None]
    /\ graph = <<GraphNode("from_data", {})>>
    /\ gradients = None
    /\ last_op = Op("from_data", "a", "a")
    /\ ConvIdle
    /\ TensorIdle

Rank(x) == Len(T(x).tensor.shape)
\* The ranges a call passes for the leading axis of x: every non-empty
\* half-open range within it.
LeadingRanges(x) ==
    {<<Range(lo, hi)>> : lo \in 0..(T(x).tensor.shape[1] - 1),
                         hi \in 1..T(x).tensor.shape[1]} \ {<<Range(1, 1)>>}

\* let dest = self.add(&other);
Call_add ==
    \E self \in Slots, other \in Slots, dest \in Slots :
      /\ Numeric(self) /\ Numeric(other)
      /\ T(self).kind = T(other).kind
      /\ T(self).device = T(other).device
      /\ T(self).tensor.shape = T(other).tensor.shape
      /\ Returns("add", self, other, dest, T(self).kind,
                 Tensor_add(T(self).tensor, T(other).tensor),
                 T(self).device, {T(self).node, T(other).node})

\* let dest = self.mul_scalar(&c);
Call_mul_scalar ==
    \E self \in Slots, dest \in Slots, c \in 0..MaxElem :
      /\ Numeric(self)
      /\ Returns("mul_scalar", self, self, dest, T(self).kind,
                 Tensor_mul_scalar(T(self).tensor, c), T(self).device, {T(self).node})

\* let dest = self.sum();
Call_sum ==
    \E self \in Slots, dest \in Slots :
      /\ Numeric(self)
      /\ Returns("sum", self, self, dest, T(self).kind,
                 Tensor_sum(T(self).tensor), T(self).device, {T(self).node})

\* let dest = self.equal(&other);
Call_equal ==
    \E self \in Slots, other \in Slots, dest \in Slots :
      /\ Numeric(self) /\ Numeric(other)
      /\ T(self).kind = T(other).kind
      /\ T(self).device = T(other).device
      /\ T(self).tensor.shape = T(other).tensor.shape
      /\ Returns("equal", self, other, dest, "bool",
                 Tensor_equal(T(self).tensor, T(other).tensor), T(self).device, {})

\* let dest = self.index([lo..hi]);
Call_index ==
    \E self \in Slots, dest \in Slots :
      /\ Numeric(self)
      /\ \E indexes \in LeadingRanges(self) :
           /\ indexes[1].start < indexes[1].end
           /\ Returns("index", self, self, dest, T(self).kind,
                      Tensor_index(T(self).tensor, indexes), T(self).device,
                      {T(self).node})

\* let dest = self.index_assign([lo..hi], &values);
Call_index_assign ==
    \E self \in Slots, values \in Slots, dest \in Slots :
      /\ Numeric(self) /\ Numeric(values)
      /\ T(self).kind = T(values).kind
      /\ T(self).device = T(values).device
      /\ Rank(self) = Rank(values)
      /\ \E indexes \in LeadingRanges(self) :
           LET r == Tensor_index_assign(T(self).tensor, indexes, T(values).tensor)
           IN /\ indexes[1].start < indexes[1].end
              /\ IsSome(r)
              /\ Returns("index_assign", self, values, dest, T(self).kind, Unwrap(r),
                         T(self).device, {T(self).node, T(values).node})

\* let dest = self.mask_fill(&mask, value);
Call_mask_fill ==
    \E self \in Slots, mask \in Slots, dest \in Slots, value \in 0..MaxElem :
      /\ Numeric(self)
      /\ Live(mask) /\ T(mask).kind = "bool"
      /\ T(mask).tensor.shape = T(self).tensor.shape
      /\ Returns("mask_fill", self, mask, dest, T(self).kind,
                 Tensor_mask_fill(T(self).tensor, T(mask).tensor, value),
                 T(self).device, {T(self).node})

\* let dest = self.reshape(shape);
Call_reshape ==
    \E self \in Slots, dest \in Slots, shape \in OpShapes :
      /\ Numeric(self)
      /\ LET r == Tensor_reshape(T(self).tensor, shape)
         IN /\ IsSome(r)
            /\ Returns("reshape", self, self, dest, T(self).kind, Unwrap(r),
                       T(self).device, {T(self).node})

\* let dest = self.unsqueeze::<D2>();
Call_unsqueeze ==
    \E self \in Slots, dest \in Slots, D2 \in 1..2 :
      /\ Numeric(self)
      /\ D2 >= Rank(self)
      /\ LET r == Tensor_unsqueeze(T(self).tensor, D2)
         IN /\ IsSome(r)
            /\ Returns("unsqueeze", self, self, dest, T(self).kind, Unwrap(r),
                       T(self).device, {T(self).node})

\* let dest = Tensor::cat(vec![x.clone(), y.clone()], dim);
Call_cat ==
    \E x \in Slots, y \in Slots, dest \in Slots, dim \in 0..1 :
      /\ Numeric(x) /\ Numeric(y)
      /\ T(x).kind = T(y).kind
      /\ T(x).device = T(y).device
      /\ Rank(x) = Rank(y)
      /\ dim < Rank(x)
      /\ \A a \in 1..Rank(x) :
           a # dim + 1 => T(x).tensor.shape[a] = T(y).tensor.shape[a]
      /\ Returns("cat", x, y, dest, T(x).kind,
                 Tensor_cat(<<T(x).tensor, T(y).tensor>>, dim), T(x).device,
                 {T(x).node, T(y).node})

\* let dest = self.to_device(device);
Call_to_device ==
    \E self \in Slots, dest \in Slots, device \in Devices :
      /\ Numeric(self)
      /\ Returns("to_device", self, self, dest, T(self).kind, T(self).tensor, device,
                 {T(self).node})

\* let dest = self.to_full_precision();
Call_to_full_precision ==
    \E self \in Slots, dest \in Slots :
      /\ Numeric(self)
      /\ Returns("to_full_precision", self, self, dest, "full",
                 Tensor_to_full_precision(T(self).tensor), T(self).device, {})

\* let grads = self.backward();
Call_backward ==
    \E self \in Slots :
      /\ Live(self) /\ T(self).kind = "ad"
      /\ gradients' = Some(B_backward(graph, T(self)))
      /\ last_op' = Op("backward", self, self)
      /\ UNCHANGED <<env, graph>>
      /\ UNCHANGED <<convVars, tensorVars>>

\* if let Some(dest) = self.grad(&grads)
Call_grad ==
    \E self \in Slots, dest \in Slots :
      /\ Live(self) /\ T(self).kind = "ad"
      /\ IsSome(gradients)
      /\ ~Live(dest)
      /\ LET r == B_grad(T(self), Unwrap(gradients))
         IN env' = IF IsSome(r) THEN Return(env, self, dest, Unwrap(r)) ELSE env
      /\ last_op' = Op("grad", self, self)
      /\ UNCHANGED <<graph, gradients>>
      /\ UNCHANGED <<convVars, tensorVars>>

\* let dest = self.inner();
Call_inner ==
    \E self \in Slots, dest \in Slots :
      /\ Live(self) /\ T(self).kind = "ad"
      /\ ~Live(dest)
      /\ env' = Return(env, self, dest, Tensor_inner(T(self)))
      /\ last_op' = Op("inner", self, self)
      /\ UNCHANGED <<graph, gradients>>
      /\ UNCHANGED <<convVars, tensorVars>>

\* let dest = self.detach();
Call_detach ==
    \E self \in Slots, dest \in Slots :
      /\ Live(self) /\ T(self).kind = "ad"
      /\ ~Live(dest)
      /\ Len(graph) < MaxNodes
      /\ env' = Return(env, self, dest, Tensor_detach(T(self), Fresh))
      /\ graph' = Append(graph, GraphNode("from_inner", {}))
      /\ last_op' = Op("detach", self, self)
      /\ UNCHANGED gradients
      /\ UNCHANGED <<convVars, tensorVars>>

\* let dest = Tensor::from_inner(inner.clone());
Call_from_inner ==
    \E inner \in Slots, dest \in Slots :
      /\ Live(inner) /\ T(inner).kind = "inner"
      /\ ~Live(dest)
      /\ Len(graph) < MaxNodes
      /\ env' = Return(env, inner, dest, Tensor_from_inner(T(inner), Fresh))
      /\ graph' = Append(graph, GraphNode("from_inner", {}))
      /\ last_op' = Op("from_inner", inner, inner)
      /\ UNCHANGED gradients
      /\ UNCHANGED <<convVars, tensorVars>>

\* self.update(other_inner.clone());
Call_update ==
    \E self \in Slots, other_inner \in Slots :
      /\ Live(self) /\ T(self).kind = "ad"
      /\ Live(other_inner) /\ T(other_inner).kind = "inner"
      /\ Rank(self) = Rank(other_inner)
      /\ Len(graph) < MaxNodes
      /\ env' = Assign(env, self, Tensor_update(T(self), T(other_inner), Fresh))
      /\ graph' = Append(graph, GraphNode("from_inner", {}))
      /\ last_op' = Op("update", self, other_inner)
      /\ UNCHANGED gradients
      /\ UNCHANGED <<convVars, tensorVars>>

ADNext ==
    \/ Call_add
    \/ Call_mul_scalar
    \/ Call_sum
    \/ Call_equal
    \/ Call_index
    \/ Call_index_assign
    \/ Call_mask_fill
    \/ Call_reshape
    \/ Call_unsqueeze
    \/ Call_cat
    \/ Call_to_device
    \/ Call_to_full_precision
    \/ Call_backward
    \/ Call_grad
    \/ Call_inner
    \/ Call_detach
    \/ Call_from_inner
    \/ Call_update

SpecAD == ADInit /\ [][ADNext]_vars

(***************************************************************************)
(* Claims about the operation surface.                                     *)
(***************************************************************************)

\* C8: a step of any operation other than update leaves every tensor variable
\* that held a value with that value, and (but for backward, which returns
\* the gradients, and grad, which may return none) binds its result to a
\* variable that held none.
C8_OnlyUpdateMutates ==
    [][last_op'.name # "update" =>
         /\ \A x \in Slots : Live(x) => env'[x] = env[x]
         /\ last_op'.name \notin {"backward", "grad"} =>
              \E dest \in Slots : ~Live(dest) /\ IsSome(env'[dest])]_vars
\* c = a.index_assign([..], &b) returned a value other than a's, and a, the
\* receiver, still holds the tensor it was built with.
C8_Witness ==
    /\ last_op = Op("index_assign", "a", "b")
    /\ Live("a") /\ Live("b") /\ Live("c")
    /\ T("a").node = 1
    /\ T("c").tensor # T("a").tensor

\* C9 as claimed: update rebinds the receiver to the value of other_inner and
\* the receiver's backward history is the same after the update as before.
C9_UpdateKeepsHistory ==
    [][last_op'.name = "update" =>
         /\ Head(env'[last_op'.self]).tensor = T(last_op'.arg).tensor
         /\ History(graph', Head(env'[last_op'.self])) = History(graph, T(last_op'.self))]_vars

\* C9 as amended: update rebinds the receiver to from_inner(other_inner): it
\* holds the value of other_inner and is linked to a node recorded by this
\* step, a leaf, so its backward history is empty; the nodes recorded before
\* and the other tensor variables are unchanged.
C9_UpdateRebindsToLeaf ==
    [][last_op'.name = "update" =>
         LET after == Head(env'[last_op'.self])
         IN /\ after.tensor = T(last_op'.arg).tensor
            /\ after.kind = "ad"
            /\ after.node = Len(graph) + 1
            /\ Len(graph') = Len(graph) + 1
            /\ SubSeq(graph', 1, Len(graph)) = graph
            /\ History(graph', after) = {}
            /\ \A x \in Slots \ {last_op'.self} : env'[x] = env[x]]_vars
\* The updated tensor had been computed from others: the node it was linked
\* to has parents and no tensor variable is linked to it any more.
C9_Witness ==
    /\ last_op.name = "update"
    /\ \E n \in 1..Len(graph) :
         /\ graph[n].parents # {}
         /\ \A x \in Slots : Live(x) => T(x).node # n

====
